---- MODULE Spec2Model ----
(***************************************************************************)
(* Model of src/app.py: a Flask service over a document store             *)
(* (collections properties, book, hosts, guests).                         *)
(*                                                                         *)
(* Every handler is modelled at the granularity of its store operations   *)
(* (find_one, insert_one, update_one, delete_one): the store executes one *)
(* operation atomically, and requests served by different workers          *)
(* interleave between operations.  A handler with a single store          *)
(* operation is one action.                                                *)
(*                                                                         *)
(* Three specifications share the module:                                  *)
(*   Spec      property CRUD and the booking ledger (lines 200-309)        *)
(*   SpecList  the paginated listing (lines 138-180)                       *)
(*   SpecAuth  signup, login, logout (lines 68-135)                        *)
(***************************************************************************)
EXTENDS Integers, Sequences, FiniteSets, TLC

VARIABLES
    properties,  \* db.properties: ObjectId -> document
    nextProp,    \* number of ObjectIds generated so far for properties
    book,        \* db.book: ObjectId -> document
    nextBook,    \* number of ObjectIds generated so far for bookings
    req,         \* per worker: the booking request it is serving
    last,        \* the response most recently returned by a CRUD handler
    listing,     \* the last listing request and what it computed
    hosts,       \* db.hosts: sequence of credential documents
    guests,      \* db.guests: sequence of credential documents
    signup,      \* per worker: the signup request it is serving
    session,     \* session.get('user_role') of the client
    reply        \* the response most recently returned by an auth handler

ledgerVars == <<nextBook, book, req, last>>
listVars == <<listing>>
authVars == <<hosts, guests, signup, session, reply>>
vars == <<properties, nextProp, nextBook, book, req, last, listing,
          hosts, guests, signup, session, reply>>

(***************************************************************************)
(* Bounds of the model.                                                    *)
(***************************************************************************)
MaxProps == 2      \* properties created in Spec
MaxBooks == 2      \* bookings created in Spec
RaceProps == 1     \* properties created in SpecRace
MaxDocs == 3       \* properties created in SpecList
MaxPage == 2       \* largest page requested (the smallest is -1)
MaxPerPage == 2    \* largest per_page requested
MaxCreds == 2      \* signups that go on to insert in SpecAuth
RaceBooks == 1     \* bookings created in SpecRace
NumWorkers == 2    \* requests served concurrently in SpecRace and SpecAuth

Workers == 1..NumWorkers

(***************************************************************************)
(* Identifiers.  A stored _id is an ObjectId, modelled as a positive       *)
(* number in generation order.  An id arriving in a URL or a JSON body is  *)
(* a string: the 24-hex rendering of an ObjectId (OidStr), or a string     *)
(* that ObjectId() rejects (Malformed); a JSON field may also be absent    *)
(* or null (NoneVal).                                                      *)
(***************************************************************************)
OidStr(n) == [kind |-> "oid", n |-> n]
Malformed == [kind |-> "malformed", n |-> 0]
NoneVal == [kind |-> "none", n |-> 0]
\* A well-formed id that was never generated (ObjectIds are numbered from 1).
UnknownOid == OidStr(0)

\* `if property_id:` -- None and "" are falsy.
Truthy(s) == s.kind # "none"
\* ObjectId(s) raises bson.errors.InvalidId unless s is 24 hex digits.
ObjectIdRaises(s) == s.kind # "oid"
ObjectId(s) == s.n

\* A served request: the route, the handler's booking_id and property_id (URL
\* argument, body field or local variable; NoneVal while unbound) and the HTTP
\* status it returned.
Response(op, bid, pid, status) ==
    [op |-> op, booking_id |-> bid, property_id |-> pid, status |-> status]
NoResponse == Response("none", NoneVal, NoneVal, 0)

(***************************************************************************)
(* Store operations on one collection (a function from _id to document).   *)
(***************************************************************************)
\* find_one({"_id": id}) is not None
Found(coll, id) == id \in DOMAIN coll

\* insert_one(doc) with doc["_id"] = id
InsertOne(coll, id, doc) == [x \in DOMAIN coll \cup {id} |-> IF x = id THEN doc ELSE coll[x]]

\* Faulty variant: deleted_count is not looked at: every delete_one counts as a removal
DeletedCountIgnored(coll, id) == 1

\* delete_one({"_id": id}).deleted_count
DeletedCount(coll, id) == IF id \in DOMAIN coll THEN 1 ELSE 0

\* the collection after delete_one({"_id": id})
DeleteOne(coll, id) == [x \in DOMAIN coll \ {id} |-> coll[x]]

\* the document after {"$set": data}: the fields of data replace the stored ones
SetFields(doc, data) == [f \in DOMAIN doc |-> IF f \in DOMAIN data THEN data[f] ELSE doc[f]]

\* Faulty variant: update_one(..., upsert=True): a missing document is created from data
UpdateOneUpsert(coll, id, data) ==
    [x \in DOMAIN coll \cup {id} |->
        IF x = id THEN (IF id \in DOMAIN coll THEN SetFields(coll[x], data) ELSE data)
        ELSE coll[x]]

\* the collection after update_one({"_id": id}, {"$set": data}); no upsert
UpdateOne(coll, id, data) ==
    [x \in DOMAIN coll |-> IF x = id THEN SetFields(coll[x], data) ELSE coll[x]]

(***************************************************************************)
(* Property documents (class Property).  description and img are carried   *)
(* through unread by every handler and are left out.                       *)
(***************************************************************************)
PropertyDoc(title, location, ptype, price, status) ==
    [title |-> title, location |-> location, property_type |-> ptype,
     price_per_night |-> price, status |-> status]

\* The request bodies Spec posts to create_property: any status, one listing text.
LedgerDocs == {PropertyDoc(<<"b">>, "goa", "villa", 50, st) : st \in BOOLEAN}

\* The request bodies Spec puts to update_property: a status, or another field only.
UpdateBodies == {[status |-> TRUE], [status |-> FALSE], [price_per_night |-> 50]}

\* Ids a client can put in a property URL or a booking body.
PropertyPathIds == {Malformed, UnknownOid} \cup {OidStr(n) : n \in 1..nextProp}
BookingPropertyIds == {NoneVal, Malformed} \cup {OidStr(n) : n \in 1..nextProp}
BookingPathIds == {Malformed, UnknownOid} \cup {OidStr(n) : n \in 1..nextBook}

(***************************************************************************)
(* Property routes.                                                        *)
(***************************************************************************)
\* POST /api/properties: Property(...) gets a fresh ObjectId and is inserted.
CreateProperty(data) ==
    /\ nextProp' = nextProp + 1
    /\ properties' = InsertOne(properties, nextProp + 1, data)
    /\ last' = Response("create_property", NoneVal, NoneVal, 201)

\* PUT /api/properties/<property_id>: $set of the body, no check that it matched.
UpdateProperty(pid, data) ==
    /\ IF ObjectIdRaises(pid)
         THEN /\ properties' = properties
              /\ last' = Response("update_property", NoneVal, pid, 500)
         ELSE /\ properties' = UpdateOne(properties, ObjectId(pid), data)
              /\ last' = Response("update_property", NoneVal, pid, 200)
    /\ UNCHANGED nextProp

\* DELETE /api/properties/<property_id>
DeleteProperty(pid) ==
    /\ IF ObjectIdRaises(pid)
         THEN /\ properties' = properties
              /\ last' = Response("delete_property", NoneVal, pid, 500)
         ELSE /\ properties' = DeleteOne(properties, ObjectId(pid))
              /\ last' = Response("delete_property", NoneVal, pid,
                             IF DeletedCount(properties, ObjectId(pid)) > 0 THEN 200 ELSE 404)
    /\ UNCHANGED nextProp

(***************************************************************************)
(* Booking routes.  A worker serves one request at a time; req[w] holds    *)
(* the handler's position and its locals between two store operations.     *)
(***************************************************************************)
Idle == [pc |-> "idle", booking_id |-> NoneVal, property_id |-> NoneVal]
At(pc, bid, pid) == [pc |-> pc, booking_id |-> bid, property_id |-> pid]

\* class Booking: the snapshot fields and the dates are never read back by a handler.
BookingDoc(pid) == [property_id |-> pid]

\* Faulty variant: the booking marks the property available
BookedStatusAvailable == [status |-> TRUE]

\* {"$set": {"status": False}} of post_property_to_book_collection
BookedStatus == [status |-> FALSE]
\* {"$set": {"status": True}} of delete_book_data
ReleasedStatus == [status |-> TRUE]
\* Faulty variant: the fall-through return reports success
MissReportsDeleted(bid, pid) == Response("delete_book", bid, pid, 200)

\* the fall-through return of delete_book_data: "Booking data not found", 404
MissResponse(bid, pid) == Response("delete_book", bid, pid, 404)

\* POST /api/properties/book, up to and including db.book.insert_one.  With no
\* property_id the handler returns; with one that ObjectId() rejects it raises.
BookInsert(w, pid) ==
    /\ req[w].pc = "idle"
    /\ nextBook' = nextBook + 1
    /\ book' = InsertOne(book, nextBook + 1, BookingDoc(pid))
    /\ IF ~Truthy(pid)
         THEN /\ req' = req
              /\ last' = Response("create_book", OidStr(nextBook + 1), pid, 201)
         ELSE IF ObjectIdRaises(pid)
                THEN /\ req' = req
                     /\ last' = Response("create_book", OidStr(nextBook + 1), pid, 500)
                ELSE /\ req' = [req EXCEPT ![w] = At("set_false", OidStr(nextBook + 1), pid)]
                     /\ last' = last
    /\ UNCHANGED <<properties, nextProp>>

\* POST /api/properties/book: db.properties.update_one(..., status False), return 201
BookSetStatus(w) ==
    /\ req[w].pc = "set_false"
    /\ properties' = UpdateOne(properties, ObjectId(req[w].property_id), BookedStatus)
    /\ last' = Response("create_book", req[w].booking_id, req[w].property_id, 201)
    /\ req' = [req EXCEPT ![w] = Idle]
    /\ UNCHANGED <<nextProp, nextBook, book>>

\* DELETE /api/properties/book/<booking_id>: db.book.find_one
DelFind(w, bid) ==
    /\ req[w].pc = "idle"
    /\ IF ObjectIdRaises(bid)
         THEN /\ req' = req
              /\ last' = Response("delete_book", bid, NoneVal, 500)
         ELSE IF Found(book, ObjectId(bid))
                THEN /\ req' = [req EXCEPT ![w] =
                                  At("delete", bid, book[ObjectId(bid)].property_id)]
                     /\ last' = last
                ELSE /\ req' = req
                     /\ last' = MissResponse(bid, NoneVal)
    /\ UNCHANGED <<properties, nextProp, nextBook, book>>

\* DELETE /api/properties/book/<booking_id>: db.book.delete_one and the test of
\* deleted_count; returns unless a property status is still to be written.
DelDelete(w) ==
    /\ req[w].pc = "delete"
    /\ book' = DeleteOne(book, ObjectId(req[w].booking_id))
    /\ IF DeletedCount(book, ObjectId(req[w].booking_id)) > 0
         THEN IF Truthy(req[w].property_id)
                THEN IF ObjectIdRaises(req[w].property_id)
                       THEN /\ req' = [req EXCEPT ![w] = Idle]
                            /\ last' = Response("delete_book", req[w].booking_id, req[w].property_id, 500)
                       ELSE /\ req' = [req EXCEPT ![w].pc = "set_true"]
                            /\ last' = last
                ELSE /\ req' = [req EXCEPT ![w] = Idle]
                     /\ last' = Response("delete_book", req[w].booking_id, req[w].property_id, 200)
         ELSE /\ req' = [req EXCEPT ![w] = Idle]
              /\ last' = MissResponse(req[w].booking_id, req[w].property_id)
    /\ UNCHANGED <<properties, nextProp, nextBook>>

\* DELETE /api/properties/book/<booking_id>: update_one(..., status True), return 200
DelSetStatus(w) ==
    /\ req[w].pc = "set_true"
    /\ properties' = UpdateOne(properties, ObjectId(req[w].property_id), ReleasedStatus)
    /\ last' = Response("delete_book", req[w].booking_id, req[w].property_id, 200)
    /\ req' = [req EXCEPT ![w] = Idle]
    /\ UNCHANGED <<nextProp, nextBook, book>>

(***************************************************************************)
(* GET /api/properties: the filtered, sorted, paginated listing.           *)
(***************************************************************************)
Max(a, b) == IF a >= b THEN a ELSE b
Min(a, b) == IF a <= b THEN a ELSE b

\* The request bodies SpecList posts to create_property.
ListDocs ==
    {PropertyDoc(<<"A", "b">>, "goa", "villa", price, TRUE) : price \in {30, 80}}
      \cup {PropertyDoc(<<"b">>, "pune", "flat", 50, TRUE)}

\* The query strings SpecList sends; "" (<<>> for a title) is an absent argument.
SortFields == {"price_per_night", ""}
SortOrders == {1, -1}
PageInputs == (0 - 1)..MaxPage
PerPageInputs == 0..MaxPerPage
TitleFilters == {<<>>, <<"a">>}
TypeFilters == {"", "villa"}
LocationFilters == {"", "pune"}

\* {'$regex': f, '$options': 'i'} for a pattern of plain letters: t contains f,
\* letter case ignored
Lower(c) == IF c = "A" THEN "a" ELSE IF c = "B" THEN "b" ELSE c
RegexMatchesI(t, f) ==
    \E i \in 0..(Len(t) - Len(f)) : \A j \in 1..Len(f) : Lower(t[i + j]) = Lower(f[j])

\* filter_query: each filter that is given must hold
Matches(doc, title, ptype, location) ==
    /\ title # <<>> => RegexMatchesI(doc.title, title)
    /\ ptype # "" => doc.property_type = ptype
    /\ location # "" => doc.location = location

\* the ids of the documents find(filter_query) matches
Matching(coll, title, ptype, location) ==
    {x \in DOMAIN coll : Matches(coll[x], title, ptype, location)}

\* Faulty variant: the usual off-by-one: total // per_page + 1
TotalPagesPlusOne(total, per_page) == total \div per_page + 1

\* total_pages = (total_properties - 1) // per_page + 1; // floors, as \div does
TotalPages(total, per_page) == (total - 1) \div per_page + 1

\* Faulty variant: the page is capped by total_pages and not raised to 1
ClampPageNoFloor(page, total_pages) == Min(page, total_pages)

\* page = max(1, min(page, total_pages))
ClampPage(page, total_pages) == Max(1, Min(page, total_pages))

\* skip = (page - 1) * per_page; skip = max(0, skip)
Skip(page, per_page) == Max(0, (page - 1) * per_page)

\* all sequences that list the set ids once each
Orders(ids) ==
    {o \in [1..Cardinality(ids) -> ids] : \A i, j \in 1..Cardinality(ids) : i # j => o[i] # o[j]}

\* the orders a sort on field by direction dir (1 ascending, -1 descending) may
\* produce; the store does not fix the order of equal keys
SortedOrders(coll, ids, field, dir) ==
    {o \in Orders(ids) :
        \A i \in 1..(Cardinality(ids) - 1) : dir * coll[o[i]][field] <= dir * coll[o[i + 1]][field]}

\* the natural order of the collection: insertion order
NaturalOrder(ids) ==
    CHOOSE o \in Orders(ids) : \A i \in 1..(Cardinality(ids) - 1) : o[i] < o[i + 1]

\* elements skip+1 .. skip+limit of o
Cut(o, skip, limit) == SubSeq(o, skip + 1, Min(Len(o), skip + limit))

\* Faulty variant: the cursor cuts the page out of the natural order and sorts the page
CursorSortsPage(coll, ids, skip, limit, field, dir) ==
    IF field = "" THEN {Cut(NaturalOrder(ids), skip, limit)}
    ELSE LET page == Cut(NaturalOrder(ids), skip, limit)
         IN SortedOrders(coll, {page[i] : i \in 1..Len(page)}, field, dir)

\* find(filter_query).skip(skip).limit(per_page), then .sort(sort_by, sort_order) if
\* sort_by: the calls only set options of the cursor; when it is iterated the store
\* sorts the matching documents, then skips, then limits.  The results it may yield.
CursorResults(coll, ids, skip, limit, field, dir) ==
    IF field = "" THEN {Cut(NaturalOrder(ids), skip, limit)}
    ELSE {Cut(o, skip, limit) : o \in SortedOrders(coll, ids, field, dir)}

ListingOf(sort_by, sort_order, page, per_page, title, ptype, location) ==
    [sort_by |-> sort_by, sort_order |-> sort_order, page_arg |-> page,
     per_page |-> per_page, title |-> title, property_type |-> ptype,
     location |-> location]
NoListing ==
    [args |-> ListingOf("", 1, 1, 0, <<>>, "", ""), status |-> 0, total_properties |-> 0,
     total_pages |-> 0, page |-> 0, skip |-> 0, items |-> <<>>]

\* get_all_properties; the response lists the documents in items, by _id
GetAllProperties(args) ==
    LET ids == Matching(properties, args.title, args.property_type, args.location)
        total_properties == Cardinality(ids)
    IN IF args.per_page = 0
         THEN \* ZeroDivisionError at total_pages
              listing' = [NoListing EXCEPT !.args = args, !.status = 500,
                                           !.total_properties = total_properties]
         ELSE LET total_pages == TotalPages(total_properties, args.per_page)
                  page == ClampPage(args.page_arg, total_pages)
                  skip == Skip(page, args.per_page)
              IN \E items \in CursorResults(properties, ids, skip, args.per_page,
                                            args.sort_by, args.sort_order) :
                    listing' = [args |-> args, status |-> 200,
                                total_properties |-> total_properties,
                                total_pages |-> total_pages, page |-> page,
                                skip |-> skip, items |-> items]

(***************************************************************************)
(* User routes.  db.hosts and db.guests are sequences in insertion order;  *)
(* find_one returns the first match.  Several clients sign up; one client  *)
(* holds the session.                                                      *)
(***************************************************************************)
Roles == {"host", "guest"}
Emails == {"ann@x", "bob@x"}
Passwords == {"pw1", "pw2"}
\* the salts bcrypt.gensalt() may draw
Salts == {"s1", "s2"}

\* hash_password: bcrypt.hashpw(password, salt) carries the salt and a digest of
\* salt and password
Digest(salt, password) == <<salt, password>>
HashPassword(password, salt) == [salt |-> salt, digest |-> Digest(salt, password)]

\* Faulty variant: any password is accepted
VerifyAnyPassword(stored_hash, password) == TRUE

\* verify_password: bcrypt.checkpw hashes password with the stored salt and compares
VerifyPassword(stored_hash, password) == Digest(stored_hash.salt, password) = stored_hash.digest

\* find_one({"email": email}): the position of the first match, 0 for None
FindByEmail(coll, email) ==
    IF \E i \in 1..Len(coll) : coll[i].email = email
      THEN CHOOSE i \in 1..Len(coll) :
              coll[i].email = email /\ \A j \in 1..(i - 1) : coll[j].email # email
      ELSE 0

Credentials(role) == IF role = "host" THEN hosts ELSE guests

\* What an auth handler returned: route, role, the email and password of the body,
\* the HTTP status and the error text of the body ("" when there is none).
Reply(op, role, email, password, status, error) ==
    [op |-> op, role |-> role, email |-> email, password |-> password,
     status |-> status, error |-> error]
NoReply == Reply("none", "", "", "", 0, "")

SignupIdle == [pc |-> "idle", role |-> "", email |-> "", password |-> ""]

\* host_signup / guest_signup up to the test of find_one
SignupFind(w, role, email, password) ==
    /\ signup[w].pc = "idle"
    /\ IF FindByEmail(Credentials(role), email) # 0
         THEN /\ reply' = Reply("signup", role, email, password, 400, "Email already exists")
              /\ signup' = signup
         ELSE /\ signup' = [signup EXCEPT ![w] =
                  [pc |-> "insert", role |-> role, email |-> email, password |-> password]]
              /\ reply' = reply
    /\ UNCHANGED <<hosts, guests, session>>

\* host_signup / guest_signup: hash_password, insert_one, return 201
SignupInsert(w, salt) ==
    /\ signup[w].pc = "insert"
    /\ LET doc == [email |-> signup[w].email,
                   password |-> HashPassword(signup[w].password, salt)]
       IN IF signup[w].role = "host"
            THEN hosts' = Append(hosts, doc) /\ guests' = guests
            ELSE guests' = Append(guests, doc) /\ hosts' = hosts
    /\ reply' = Reply("signup", signup[w].role, signup[w].email, signup[w].password, 201, "")
    /\ signup' = [signup EXCEPT ![w] = SignupIdle]
    /\ UNCHANGED session

\* the response of a failed login
InvalidCredentials(role, email, password) ==
    Reply("login", role, email, password, 401, "Invalid credentials")

\* host_login / guest_login
Login(role, email, password) ==
    /\ LET i == FindByEmail(Credentials(role), email)
       IN IF i = 0 \/ ~VerifyPassword(Credentials(role)[i].password, password)
            THEN /\ reply' = InvalidCredentials(role, email, password)
                 /\ session' = session
            ELSE /\ session' = role
                 /\ reply' = Reply("login", role, email, password, 200, "")
    /\ UNCHANGED <<hosts, guests, signup>>

\* logout: session.pop('user_role', None)
Logout ==
    /\ session' = "none"
    /\ reply' = Reply("logout", "", "", "", 200, "")
    /\ UNCHANGED <<hosts, guests, signup>>

(***************************************************************************)
(* Spec: property CRUD and the booking ledger.                             *)
(***************************************************************************)
EmptyColl == [x \in {} |-> 0]

Init ==
    /\ properties = EmptyColl
    /\ nextProp = 0
    /\ book = EmptyColl
    /\ nextBook = 0
    /\ req = [w \in Workers |-> Idle]
    /\ last = NoResponse
    /\ listing = NoListing
    /\ hosts = <<>>
    /\ guests = <<>>
    /\ signup = [w \in Workers |-> SignupIdle]
    /\ session = "none"
    /\ reply = NoReply

\* Requests are served one at a time, each handler running to its return.
Quiescent == \A w \in Workers : req[w].pc = "idle"

PropertyStep(limit) ==
    /\ \/ \E data \in LedgerDocs : nextProp < limit /\ CreateProperty(data)
       \/ \E pid \in PropertyPathIds, data \in UpdateBodies : UpdateProperty(pid, data)
       \/ \E pid \in PropertyPathIds : DeleteProperty(pid)
    /\ UNCHANGED <<nextBook, book, req>>

BookingStep(w, limit) ==
    \/ \E pid \in BookingPropertyIds : nextBook < limit /\ BookInsert(w, pid)
    \/ BookSetStatus(w)
    \/ \E bid \in BookingPathIds : DelFind(w, bid)
    \/ DelDelete(w)
    \/ DelSetStatus(w)

Next ==
    /\ \/ Quiescent /\ PropertyStep(MaxProps)
       \/ BookingStep(1, MaxBooks)
    /\ UNCHANGED listVars
    /\ UNCHANGED authVars

Spec == Init /\ [][Next]_vars

(***************************************************************************)
(* SpecRace: the same handlers served concurrently.  An arriving request   *)
(* is taken by the first idle worker.                                      *)
(***************************************************************************)
FirstIdle(w) == \A v \in Workers : v < w => req[v].pc # "idle"

NextRace ==
    /\ \/ PropertyStep(RaceProps)
       \/ \E w \in Workers : (req[w].pc = "idle" => FirstIdle(w)) /\ BookingStep(w, RaceBooks)
    /\ UNCHANGED listVars
    /\ UNCHANGED authVars

SpecRace == Init /\ [][NextRace]_vars

(***************************************************************************)
(* SpecList: a catalogue is built up, then a listing request is served.    *)
(***************************************************************************)
ListArgs ==
    {ListingOf(sb, so, pg, pp, t, ty, loc) :
        sb \in SortFields, so \in SortOrders, pg \in PageInputs, pp \in PerPageInputs,
        t \in TitleFilters, ty \in TypeFilters, loc \in LocationFilters}

NextList ==
    /\ listing = NoListing
    /\ \/ /\ \E data \in ListDocs : nextProp < MaxDocs /\ CreateProperty(data)
          /\ UNCHANGED listing
       \/ /\ \E args \in ListArgs : GetAllProperties(args)
          /\ UNCHANGED <<properties, nextProp, last>>
    /\ UNCHANGED <<nextBook, book, req>>
    /\ UNCHANGED authVars

SpecList == Init /\ [][NextList]_vars

(***************************************************************************)
(* SpecAuth: signups served concurrently, logins and logouts of one client. *)
(***************************************************************************)
SignupsInFlight == Cardinality({w \in Workers : signup[w].pc # "idle"})
FirstIdleSignup(w) == \A v \in Workers : v < w => signup[v].pc # "idle"

NextAuth ==
    /\ \/ \E w \in Workers, role \in Roles, email \in Emails, password \in Passwords :
             /\ \/ FindByEmail(Credentials(role), email) # 0
                \/ Len(hosts) + Len(guests) + SignupsInFlight < MaxCreds
             /\ FirstIdleSignup(w)
             /\ SignupFind(w, role, email, password)
       \/ \E w \in Workers, salt \in Salts : SignupInsert(w, salt)
       \/ \E role \in Roles, email \in Emails, password \in Passwords :
             Login(role, email, password)
       \/ Logout
    /\ UNCHANGED <<properties, nextProp, nextBook, book, req, last, listing>>

SpecAuth == Init /\ [][NextAuth]_vars

(***************************************************************************)
(* Claims about the listing.                                               *)
(***************************************************************************)
\* ceil(a / b) for a >= 0, b > 0
CeilDiv(a, b) == CHOOSE q \in 0..a : q * b >= a /\ (q - 1) * b < a
\* the documents the request's filters select, counted one by one
Selected ==
    {x \in DOMAIN properties :
        /\ listing.args.title # <<>> => RegexMatchesI(properties[x].title, listing.args.title)
        /\ listing.args.property_type # ""
             => properties[x].property_type = listing.args.property_type
        /\ listing.args.location # "" => properties[x].location = listing.args.location}

\* C4: for per_page > 0, any requested page and any number of matching documents,
\* the clamped page lies in 1..max(1, ceil(total_count / per_page)) and
\* skip = (page - 1) * per_page >= 0.
C4_PageClamped ==
    (listing.status # 0 /\ listing.args.per_page > 0)
      => /\ listing.status = 200
         /\ listing.total_properties = Cardinality(Selected)
         /\ listing.page >= 1
         /\ listing.page <= Max(1, CeilDiv(listing.total_properties, listing.args.per_page))
         /\ listing.skip = (listing.page - 1) * listing.args.per_page
         /\ listing.skip >= 0

\* C4 witness: a negative page was requested of a catalogue with several pages.
C4_Witness ==
    /\ listing.status = 200
    /\ listing.args.page_arg < 0
    /\ listing.total_properties > listing.args.per_page
    /\ listing.page = 1

\* C5 as claimed: total_pages is ceil(total_count / per_page) and at least 1, also
\* when nothing matches.
C5_TotalPagesAtLeastOne ==
    listing.status = 200
      => listing.total_pages = Max(1, CeilDiv(listing.total_properties, listing.args.per_page))

\* C5 as amended: total_pages is ceil(total_count / per_page) for per_page > 0: it
\* is 0 when nothing matches and at least 1 otherwise (the clamped page is at least
\* 1 either way).
C5_TotalPagesIsCeil ==
    (listing.status # 0 /\ listing.args.per_page > 0)
      => /\ listing.status = 200
         /\ listing.total_pages = CeilDiv(listing.total_properties, listing.args.per_page)
         /\ (listing.total_pages >= 1) = (listing.total_properties >= 1)
         /\ listing.page >= 1

\* C5 witness: a listing that matched nothing computed zero pages and serves page 1.
C5_Witness ==
    /\ listing.status = 200
    /\ listing.total_properties = 0
    /\ listing.total_pages = 0
    /\ listing.page = 1
    /\ DOMAIN properties # {}

\* o is in the requested order: by the sort_by field in the requested direction,
\* or in insertion order when sort_by is empty.
C6_IsSorted(o) ==
    \A i \in 1..(Len(o) - 1) :
       IF listing.args.sort_by = "" THEN o[i] < o[i + 1]
       ELSE IF listing.args.sort_order = 1
              THEN properties[o[i]][listing.args.sort_by] <= properties[o[i + 1]][listing.args.sort_by]
              ELSE properties[o[i]][listing.args.sort_by] >= properties[o[i + 1]][listing.args.sort_by]
\* C6: the response is positions skip+1 .. skip+per_page of an arrangement of all
\* the selected documents: ordered by the sort_by field in the requested direction
\* when sort_by is given, in insertion order when it is empty.
C6_SortedThenCut ==
    listing.status = 200
      => \E o \in [1..Cardinality(Selected) -> Selected] :
            /\ \A x \in Selected : \E i \in 1..Cardinality(Selected) : o[i] = x
            /\ C6_IsSorted(o)
            /\ Len(listing.items) = Max(0, Min(listing.args.per_page, Len(o) - listing.skip))
            /\ \A i \in 1..Len(listing.items) : listing.items[i] = o[listing.skip + i]

\* C6 witness: prices [50, 80, 30], descending, page 1, per_page 2: the page is
\* the documents priced [80, 50].
C6_Witness ==
    /\ listing.status = 200
    /\ nextProp = 3
    /\ [x \in 1..3 |-> properties[x].price_per_night] = <<50, 80, 30>>
    /\ listing.args = ListingOf("price_per_night", -1, 1, 2, <<>>, "", "")
    /\ listing.items = <<2, 1>>


(***************************************************************************)
(* Claims about the user routes.                                           *)
(***************************************************************************)
\* C7: no two credential records of one role partition have the same email.
C7_EmailsUnique ==
    \A role \in Roles :
       \A i, j \in 1..Len(Credentials(role)) :
          i # j => Credentials(role)[i].email # Credentials(role)[j].email

\* the email is stored in the partition / some record of it carries the password
C8_Stored(coll, email) == \E i \in 1..Len(coll) : coll[i].email = email
C8_PasswordOf(coll, email, password) ==
    \E i \in 1..Len(coll) :
       coll[i].email = email /\ coll[i].password.digest = <<coll[i].password.salt, password>>

\* C8: a login with a stored email and a password no record of that email carries,
\* and a login with an email that is not stored, are both answered 401 "Invalid
\* credentials" and both leave the session marker as it was.
C8_LoginFailuresAlike ==
    [][(reply'.op = "login" /\ signup' = signup)
         => LET coll == IF reply'.role = "host" THEN hosts ELSE guests
            IN ~C8_PasswordOf(coll, reply'.email, reply'.password)
                 => /\ reply'.status = 401
                    /\ reply'.error = "Invalid credentials"
                    /\ session' = session
                    /\ hosts' = hosts /\ guests' = guests
      ]_vars

\* C8 witness: a logged-in client has just been refused with a stored email and a
\* wrong password, and is still logged in.
C8_Witness ==
    /\ reply.op = "login" /\ reply.status = 401
    /\ C8_Stored(Credentials(reply.role), reply.email)
    /\ ~C8_PasswordOf(Credentials(reply.role), reply.email, reply.password)
    /\ session # "none"

(***************************************************************************)
(* Claims about the booking ledger.  A step is told apart by what it does  *)
(* to the state: a worker's step changes req[w]; a request served in one   *)
(* step leaves req alone and puts its response in last.                    *)
(***************************************************************************)
\* the bookings that reference property p
BookingsOf(p) == {b \in DOMAIN book : book[b].property_id = OidStr(p)}
StatusOf(coll, pid) == coll[ObjectId(pid)].status
Exists(coll, pid) == ~ObjectIdRaises(pid) /\ ObjectId(pid) \in DOMAIN coll
\* worker w leaves position pc in this step
Leaves(w, pc) == req[w].pc = pc /\ req'[w] # req[w]

\* C1: between requests, a property's status is false if a stored booking
\* references it and true if none does.
C1_StatusTracksBookings ==
    Quiescent => \A p \in DOMAIN properties : properties[p].status = (BookingsOf(p) = {})

\* C2: a booking-create whose property_id is a well-formed id stores that id and
\* returns only after the status write; the step that completes it leaves an existing
\* P with status false.  A booking-delete works on the property_id the booking
\* stored, and the step that completes it leaves an existing P with status true.
\* Both hold whatever P.status was before.
C2_BookingTogglesStatus ==
    [][/\ (nextBook' # nextBook /\ req' = req) => ObjectIdRaises(last'.property_id)
       /\ \A w \in Workers :
            /\ (req[w].pc = "idle" /\ req'[w].pc = "set_false")
                 => /\ Exists(book', req'[w].booking_id)
                    /\ book'[ObjectId(req'[w].booking_id)].property_id = req'[w].property_id
            /\ (Leaves(w, "set_false") /\ Exists(properties, req[w].property_id))
                 => /\ Exists(properties', req[w].property_id)
                    /\ StatusOf(properties', req[w].property_id) = FALSE
                    /\ last' = Response("create_book", req[w].booking_id, req[w].property_id, 201)
            /\ (req[w].pc = "idle" /\ req'[w].pc = "delete")
                 => /\ Exists(book, req'[w].booking_id)
                    /\ book[ObjectId(req'[w].booking_id)].property_id = req'[w].property_id
            /\ (Leaves(w, "set_true") /\ Exists(properties, req[w].property_id))
                 => /\ Exists(properties', req[w].property_id)
                    /\ StatusOf(properties', req[w].property_id) = TRUE
                    /\ last' = Response("delete_book", req[w].booking_id, req[w].property_id, 200)
      ]_vars

\* C2 witness: the booking of an existing property has been deleted with status 200
\* and the property is available again.
C2_Witness ==
    /\ last.op = "delete_book" /\ last.status = 200
    /\ Exists(properties, last.property_id)
    /\ StatusOf(properties, last.property_id) = TRUE
    /\ BookingsOf(ObjectId(last.property_id)) = {}

C9_OneDeleterWins ==
    [][/\ \A b \in 1..nextBook : b \notin DOMAIN book => b \notin DOMAIN book'
       /\ \A w \in Workers :
            /\ (Leaves(w, "delete") /\ ~Exists(book, req[w].booking_id))
                 => /\ last' = Response("delete_book", req[w].booking_id, req[w].property_id, 404)
                    /\ req'[w].pc = "idle"
                    /\ properties' = properties
                    /\ book' = book
            /\ (Leaves(w, "delete") /\ Exists(book, req[w].booking_id))
                 => /\ DOMAIN book' = DOMAIN book \ {ObjectId(req[w].booking_id)}
                    /\ properties' = properties
                    /\ ~ObjectIdRaises(req[w].property_id) => req'[w].pc = "set_true"
                    /\ ~Truthy(req[w].property_id)
                         => last' = Response("delete_book", req[w].booking_id,
                                             req[w].property_id, 200)
            /\ (req'[w].pc = "set_true" /\ req[w].pc # "set_true")
                 => /\ req[w].pc = "delete"
                    /\ Exists(book, req[w].booking_id)
                    /\ ~Exists(book', req[w].booking_id)
            /\ Leaves(w, "set_true")
                 => /\ last' = Response("delete_book", req[w].booking_id, req[w].property_id, 200)
                    /\ \A p \in DOMAIN properties' :
                         properties'[p].status =
                            IF p = ObjectId(req[w].property_id) THEN TRUE
                            ELSE properties[p].status
      ]_vars

\* C9 witness: two requests found the same booking; one has removed it and is about
\* to write the status of its property, the other has been told not-found.
C9_Witness ==
    \E w \in Workers :
       /\ req[w].pc = "set_true"
       /\ last = Response("delete_book", req[w].booking_id, req[w].property_id, 404)
       /\ Exists(properties, req[w].property_id)

\* C10: a step that removes a property removes that record only and leaves the
\* bookings as they are; the delete of a stored booking whose property is gone
\* removes the booking, returns 200 and leaves the property collection as it is.
C10_NoCascade ==
    [][/\ \A p \in DOMAIN properties :
            p \notin DOMAIN properties'
              => /\ book' = book
                 /\ DOMAIN properties' = DOMAIN properties \ {p}
                 /\ \A q \in DOMAIN properties' : properties'[q] = properties[q]
                 /\ last' = Response("delete_property", NoneVal, OidStr(p), 200)
       /\ (req' = req /\ last'.op = "delete_book") => ~Exists(book, last'.booking_id)
       /\ (Leaves(1, "delete") /\ ~ObjectIdRaises(req[1].property_id)
                               /\ ~Exists(properties, req[1].property_id))
            => /\ Exists(book, req[1].booking_id)
               /\ DOMAIN book' = DOMAIN book \ {ObjectId(req[1].booking_id)}
               /\ req'[1].pc = "set_true"
               /\ properties' = properties
       /\ (Leaves(1, "set_true") /\ ~Exists(properties, req[1].property_id))
            => /\ properties' = properties
               /\ book' = book
               /\ last' = Response("delete_book", req[1].booking_id, req[1].property_id, 200)
      ]_vars

\* C10 witness: the booking of a deleted property has been deleted with status 200
\* while another property and another booking are stored.
C10_Witness ==
    /\ last.op = "delete_book" /\ last.status = 200
    /\ ~ObjectIdRaises(last.property_id)
    /\ ObjectId(last.property_id) \in 1..nextProp
    /\ ~Exists(properties, last.property_id)
    /\ DOMAIN properties # {}
    /\ DOMAIN book # {}
    /\ Quiescent

====
